---- MODULE Spec2Model ----
(***************************************************************************)
(* A model of generate_compose.py: one run of main() over a scenario       *)
(* document.  The document is a nested mapping; a Python dict is a TLA+    *)
(* function whose DOMAIN is its key set, so "k in d" is k \in DOMAIN d.    *)
(* Generated files are sequences of lines, each line the string the        *)
(* f-string of the source builds; "\n".join(lines) is the sequence itself. *)
(*                                                                         *)
(* Values of extra fields carry their Python type as the record's field    *)
(* name: [str |-> s], [bool |-> b], [int |-> n], [list |-> <<...>>],       *)
(* [dict |-> m].  image and name are strings, port an integer, an          *)
(* environment a sequence of EnvVar mappings with optional keys "name"     *)
(* and "default".                                                          *)
(*                                                                         *)
(* Not modelled: argparse failures and I/O errors of mkdir/open/write.     *)
(***************************************************************************)
EXTENDS Integers, Sequences, FiniteSets, TLC

\* Largest number of roles in participants.required_roles.
MaxRoles == 2
\* Largest number of entries in one owner's environment list.
MaxEnv == 1

--------------------------------------------------------------------------
\* Python dict primitives.

EmptyDict == [k \in {} |-> TRUE]

\* d.get(k, default)
Get(d, k, default) == IF k \in DOMAIN d THEN d[k] ELSE default

\* The mapping d without key k set, or with it set to v.
Opt(present, k, v) == IF present THEN k :> v ELSE EmptyDict

SeqsUpTo(S, n) == UNION {[1..k -> S] : k \in 0..n}
NonEmptySeqsUpTo(S, n) == UNION {[1..k -> S] : k \in 1..n}

\* Concatenation of a sequence of sequences.
RECURSIVE Flatten(_)
Flatten(ss) == IF ss = <<>> THEN <<>> ELSE Head(ss) \o Flatten(Tail(ss))

--------------------------------------------------------------------------
\* The scenario documents a run is started on.

GreenImage == "img:latest"
RoleImage == "d:latest"
\* The ports of the green agent and of the roles.
Ports == [green |-> 8080, role |-> 9000]
GreenPort == Ports.green
RolePort == Ports.role
RoleNames == {"debater", "judge"}
\* The green agent's fixed service identifier, usable as a role name too.
GreenService == "green-agent"
\* Role names by position, for documents whose roles are told apart by it.
NameAt(i) == IF i = 1 THEN "debater" ELSE IF i = 2 THEN "judge"
             ELSE IF i = 3 THEN "critic" ELSE "referee"

\* EnvVar entries: a required secret, an optional variable, the same name
\* with a default, and an entry whose "name" key is missing.
EnvVars ==
    { [name |-> "API_KEY"],
      [name |-> "API_KEY", default |-> "dev"],
      [name |-> "MODE", default |-> "fast"],
      [default |-> "dev"] }

\* An owner's "environment" key: absent, or a list of 1..MaxEnv entries.
EnvChoices ==
    {EmptyDict} \cup {"environment" :> e : e \in NonEmptySeqsUpTo(EnvVars, MaxEnv)}

\* Values of fields outside the recognized key sets.
ExtraValues ==
    { [str |-> "gpt"], [bool |-> TRUE], [int |-> 3],
      [list |-> <<[int |-> 1], [int |-> 2]>>],
      [list |-> <<[str |-> "a"]>>],
      [list |-> <<[bool |-> TRUE]>>],
      [dict |-> [depth |-> [int |-> 1]]] }

\* An owner's extra field: none, or the key "model" with any value.
ExtraChoices == {EmptyDict} \cup {"model" :> v : v \in ExtraValues}

ValidGreen == [image |-> GreenImage, port |-> GreenPort]
ValidRole(n) == [name |-> n, image |-> RoleImage, port |-> RolePort]

\* green_agent with any subset of its required fields.
GreenShapes ==
    { Opt(i, "image", GreenImage) @@ Opt(p, "port", GreenPort) :
        i \in BOOLEAN, p \in BOOLEAN }

\* A role with any subset of its required fields and any name.
RoleShapes ==
    { Opt(n /= "", "name", n) @@ Opt(i, "image", RoleImage) @@ Opt(p, "port", RolePort) :
        n \in RoleNames \cup {GreenService, ""}, i \in BOOLEAN, p \in BOOLEAN }

\* The "participants" key: absent, without required_roles, or with a list.
ParticipantShapes ==
    { EmptyDict, [participants |-> EmptyDict] }
      \cup { [participants |-> [required_roles |-> rs]] :
                rs \in SeqsUpTo(RoleShapes, MaxRoles) }

\* Documents that differ in which required fields are present.
DocsStructure ==
    { ps : ps \in ParticipantShapes }
      \cup { [green_agent |-> g] @@ ps : g \in GreenShapes, ps \in ParticipantShapes }

\* Valid documents, of a green agent and two roles, that differ in the
\* environment lists of the three owners.
DocsEnvironment ==
    { [green_agent |-> ValidGreen @@ ge,
       participants |-> [required_roles |->
           <<ValidRole(NameAt(1)) @@ e1, ValidRole(NameAt(2)) @@ e2>>]] :
        ge \in EnvChoices, e1 \in EnvChoices, e2 \in EnvChoices }

\* Valid documents that differ in the extra fields of their owners.
DocsExtra ==
    UNION { { [green_agent |-> ValidGreen @@ gx,
               participants |-> [required_roles |->
                   [i \in 1..n |-> ValidRole(NameAt(i)) @@ rxs[i]]]] :
                gx \in ExtraChoices, rxs \in [1..n -> ExtraChoices] } :
            n \in 1..MaxRoles }

\* Valid documents with one more top-level entry: a [metadata] table with
\* one key, or a bare top-level key.
DocsSections ==
    { [green_agent |-> ValidGreen,
       participants |-> [required_roles |-> <<ValidRole(NameAt(1))>>]] @@ top :
        top \in { [metadata |-> [dict |-> ("owner" :> v)]] : v \in ExtraValues }
                  \cup { [title |-> [str |-> "demo"]] } }

\* The file holds a document of one of the four families.
IsDocument(d) ==
    \/ d \in DocsStructure
    \/ d \in DocsEnvironment
    \/ d \in DocsExtra
    \/ d \in DocsSections

--------------------------------------------------------------------------
\* Python rendering primitives.

\* The keys of a dict as .items() walks them, without those in skip.
RECURSIVE KeysOf(_)
KeysOf(S) ==
    IF S = {} THEN <<>>
    ELSE LET k == CHOOSE k \in S : TRUE IN <<k>> \o KeysOf(S \ {k})

Items(d, skip) == KeysOf(DOMAIN d \ skip)

\* ", ".join(parts)
RECURSIVE Join(_)
Join(parts) ==
    IF parts = <<>> THEN ""
    ELSE IF Len(parts) = 1 THEN parts[1]
    ELSE parts[1] \o ", " \o Join(Tail(parts))

\* str(b) of a bool, and str.lower() of it.
PyBool(b) == IF b THEN "True" ELSE "False"
Lower(s) == IF s = "True" THEN "true" ELSE IF s = "False" THEN "false" ELSE s

\* repr(value), which is what f"{value}" gives for the elements of a list.
\* Strings here hold no quote or backslash, so repr single-quotes them as is.
RECURSIVE PyRepr(_)
PyRepr(value) ==
    IF "str" \in DOMAIN value THEN "'" \o value.str \o "'"
    ELSE IF "bool" \in DOMAIN value THEN PyBool(value.bool)
    ELSE IF "int" \in DOMAIN value THEN ToString(value.int)
    ELSE IF "list" \in DOMAIN value
        THEN "[" \o Join([i \in 1..Len(value.list) |-> PyRepr(value.list[i])]) \o "]"
    ELSE LET ks == KeysOf(DOMAIN value.dict) IN
         "{" \o Join([i \in 1..Len(ks) |->
                        "'" \o ks[i] \o "': " \o PyRepr(value.dict[ks[i]])]) \o "}"

\* The isinstance chain that renders one key of a mapping: the lines added.
RenderField(key, value) ==
    IF "str" \in DOMAIN value THEN <<key \o " = \"" \o value.str \o "\"">>
    ELSE IF "bool" \in DOMAIN value THEN <<key \o " = " \o Lower(PyBool(value.bool))>>
    ELSE IF "int" \in DOMAIN value THEN <<key \o " = " \o ToString(value.int)>>
    ELSE IF "list" \in DOMAIN value THEN <<key \o " = " \o PyRepr(value)>>
    ELSE <<>>

\* The lines RenderField adds for every key of d outside skip.
RenderFields(d, skip) ==
    LET ks == Items(d, skip) IN
    Flatten([i \in 1..Len(ks) |-> RenderField(ks[i], d[ks[i]])])

\* config.get("participants", {}).get("required_roles", [])
RequiredRoles(config) ==
    Get(Get(config, "participants", EmptyDict), "required_roles", <<>>)

\* owner.get("environment", [])
EnvOf(owner) == Get(owner, "environment", <<>>)

\* A subscript d[k] of the generators raises KeyError: a required field of
\* the green agent or of a role, or the "name" of an environment entry.
KeyErrorIn(config) ==
    LET roles == RequiredRoles(config) IN
    \/ "green_agent" \notin DOMAIN config
    \/ \E k \in {"image", "port"} : k \notin DOMAIN config.green_agent
    \/ \E r \in DOMAIN roles : \E k \in {"name", "image", "port"} : k \notin DOMAIN roles[r]
    \/ \E v \in DOMAIN EnvOf(config.green_agent) :
          "name" \notin DOMAIN EnvOf(config.green_agent)[v]
    \/ \E r \in DOMAIN roles : \E v \in DOMAIN EnvOf(roles[r]) :
          "name" \notin DOMAIN EnvOf(roles[r])[v]

--------------------------------------------------------------------------
\* generate_docker_compose

\* The "environment:" block of one service.
ComposeEnv(env) ==
    IF env = <<>> THEN <<>>
    ELSE <<"    environment:">> \o
         [i \in 1..Len(env) |->
            IF "default" \in DOMAIN env[i]
            THEN "      - " \o env[i].name \o "=" \o env[i].default
            ELSE "      - " \o env[i].name \o "=${" \o env[i].name \o "}"]

\* The command and healthcheck lines of an agent service.
CommandLine(id, port) ==
    "    command: [\"--host\", \"0.0.0.0\", \"--port\", \"" \o ToString(port)
      \o "\", \"--card-url\", \"http://" \o id \o ":" \o ToString(port) \o "\"]"

HealthLines(port) ==
    << "    healthcheck:",
       "      test: [\"CMD\", \"python\", \"-c\", \"import urllib.request; urllib.request.urlopen('http://localhost:"
          \o ToString(port) \o "/.well-known/agent-card.json')\"]",
       "      interval: 5s",
       "      timeout: 3s",
       "      retries: 10",
       "      start_period: 30s" >>

NetworkLines == << "    networks:", "      - agent-network", "" >>

GreenBlock(green_agent, required_roles) ==
    << "  green-agent:",
       "    image: " \o green_agent.image,
       "    container_name: green-agent",
       CommandLine("green-agent", green_agent.port) >>
    \o HealthLines(green_agent.port)
    \o ComposeEnv(EnvOf(green_agent))
    \o (IF required_roles = <<>> THEN <<>>
        ELSE <<"    depends_on:">> \o
             [i \in 1..Len(required_roles) |-> "      - " \o required_roles[i].name])
    \o NetworkLines

RoleBlock(role) ==
    << "  " \o role.name \o ":",
       "    image: " \o role.image,
       "    container_name: " \o role.name,
       CommandLine(role.name, role.port) >>
    \o HealthLines(role.port)
    \o ComposeEnv(EnvOf(role))
    \o NetworkLines

\* A variant that leaves the green agent out of the runner's dependencies.
AllServicesRolesOnly(required_roles) ==
    [i \in 1..Len(required_roles) |-> required_roles[i].name]

\* all_services
AllServices(required_roles) ==
    <<"green-agent">> \o [i \in 1..Len(required_roles) |-> required_roles[i].name]

RunnerDependsOn(all_services) ==
    Flatten([i \in 1..Len(all_services) |->
        << "      " \o all_services[i] \o ":",
           "        condition: service_healthy" >>])

RunnerBlock(required_roles) ==
    << "  agentbeats-runner:",
       "    image: ghcr.io/komyo-ai/agentbeats-runner:latest",
       "    container_name: agentbeats-runner",
       "    volumes:",
       "      - ./runner-scenario.toml:/scenario/scenario.toml",
       "      - ./output:/app/output",
       "    command: [\"/scenario/scenario.toml\", \"/app/output/score.json\"]",
       "    depends_on:" >>
    \o RunnerDependsOn(AllServices(required_roles))
    \o NetworkLines

generate_docker_compose(config) ==
    LET required_roles == RequiredRoles(config) IN
    << "# Auto-generated Docker Compose file from scenario.toml",
       "# Do not edit manually - regenerate using generate_compose.py",
       "",
       "version: '3.8'",
       "",
       "services:" >>
    \o GreenBlock(config.green_agent, required_roles)
    \o Flatten([i \in 1..Len(required_roles) |-> RoleBlock(required_roles[i])])
    \o RunnerBlock(required_roles)
    \o << "networks:", "  agent-network:", "    driver: bridge", "" >>

--------------------------------------------------------------------------
\* generate_env_example

\* The (agent_name, var) pairs of every owner, green agent first.
OwnedVars(config) ==
    LET roles == RequiredRoles(config)
        green_env == EnvOf(config.green_agent) IN
    [i \in 1..Len(green_env) |-> <<"green-agent", green_env[i]>>]
    \o Flatten([r \in 1..Len(roles) |->
          [i \in 1..Len(EnvOf(roles[r])) |-> <<roles[r].name, EnvOf(roles[r])[i]>>]])

HasDefault(pair) == "default" \in DOMAIN pair[2]
NoDefault(pair) == "default" \notin DOMAIN pair[2]

\* A variant that collects the required variables of the green agent alone.
all_required_vars_green_only(config) ==
    SelectSeq(OwnedVars(config), LAMBDA pair : NoDefault(pair) /\ pair[1] = "green-agent")

all_required_vars(config) == SelectSeq(OwnedVars(config), NoDefault)
all_optional_with_defaults(config) == SelectSeq(OwnedVars(config), HasDefault)

RequiredSection(vars) ==
    IF vars = <<>> THEN <<>>
    ELSE <<"# Required variables (no defaults)">>
         \o Flatten([i \in 1..Len(vars) |->
               << "# " \o vars[i][1], vars[i][2].name \o "=" >>])
         \o <<"">>

OptionalSection(vars) ==
    IF vars = <<>> THEN <<>>
    ELSE <<"# Optional variables (defaults are set in docker-compose.yml)">>
         \o [i \in 1..Len(vars) |->
               "# " \o vars[i][1] \o ": " \o vars[i][2].name \o "=" \o vars[i][2].default]
         \o <<"">>

EnvHeader ==
    << "# Environment variables for agents",
       "# Copy this file to .env and fill in the required values",
       "" >>

generate_env_example(config) ==
    EnvHeader
    \o RequiredSection(all_required_vars(config))
    \o OptionalSection(all_optional_with_defaults(config))

\* content.strip() of the joined lines is non-empty: some line holds a
\* character that is not white space (every generated line that is not ""
\* starts a comment or an assignment).
StripNonEmpty(lines) == \E i \in DOMAIN lines : lines[i] /= ""

--------------------------------------------------------------------------
\* generate_runner_scenario

\* The repeated environment sub-tables of one owner.
ScenarioEnv(header, env) ==
    IF env = <<>> THEN <<>>
    ELSE <<"">> \o
         Flatten([i \in 1..Len(env) |->
            << header, "name = \"" \o env[i].name \o "\"" >>
            \o (IF "default" \in DOMAIN env[i]
                THEN <<"default = \"" \o env[i].default \o "\"">> ELSE <<>>)])

docker_specific_keys == {"image", "port", "environment"}
participant_docker_keys == {"name", "image", "port", "environment"}
known_sections == {"green_agent", "participants"}

\* A variant that takes the section name for the service identifier.
GreenEndpointUnderscore(green_agent) ==
    "endpoint = \"http://green_agent:" \o ToString(green_agent.port) \o "\""

GreenEndpoint(green_agent) ==
    "endpoint = \"http://green-agent:" \o ToString(green_agent.port) \o "\""

GreenSection(green_agent) ==
    << "[green_agent]", GreenEndpoint(green_agent) >>
    \o RenderFields(green_agent, docker_specific_keys)
    \o ScenarioEnv("[[green_agent.environment]]", EnvOf(green_agent))
    \o <<"">>

ParticipantEntry(role) ==
    << "[[participants]]",
       "role = \"" \o role.name \o "\"",
       "endpoint = \"http://" \o role.name \o ":" \o ToString(role.port) \o "\"" >>
    \o RenderFields(role, participant_docker_keys)
    \o ScenarioEnv("[[participants.environment]]", EnvOf(role))
    \o <<"">>

PassThroughSection(section_name, section_value) ==
    <<"[" \o section_name \o "]">>
    \o (IF "dict" \in DOMAIN section_value
        THEN RenderFields(section_value.dict, {}) ELSE <<>>)
    \o <<"">>

generate_runner_scenario(config) ==
    LET required_roles == RequiredRoles(config)
        others == Items(config, known_sections) IN
    GreenSection(config.green_agent)
    \o Flatten([i \in 1..Len(required_roles) |-> ParticipantEntry(required_roles[i])])
    \o Flatten([i \in 1..Len(others) |-> PassThroughSection(others[i], config[others[i]])])

--------------------------------------------------------------------------
\* One run of main().

VARIABLES
    source,       \* the file at toml_path: "missing", "malformed" or "ok"
    toml,         \* the document the file holds
    config,       \* the parsed document, EmptyDict before parse_toml
    pc,           \* where the run stands
    fi,           \* validate_config: index into the current field list
    ri,           \* validate_config: the enumerate() index of the current role
    checked,      \* the field paths validate_config has tested, in order
    message,      \* the error printed, "" when none
    exitCode,     \* -1 while running, then the process exit status
    files,        \* the output directory: file name -> lines written
    env_content   \* main's env_content, <<>> before it is computed

vars == <<source, toml, config, pc, fi, ri, checked, message, exitCode, files, env_content>>

required_green_fields == <<"image", "port">>
\* A variant that tests image before name.
required_role_fields_reordered == <<"image", "name", "port">>
required_role_fields == <<"name", "image", "port">>

Init ==
    /\ \/ source = "ok" /\ IsDocument(toml)
       \/ source \in {"missing", "malformed"} /\ toml = EmptyDict
    /\ config = EmptyDict
    /\ pc = "start"
    /\ fi = 1
    /\ ri = 0
    /\ checked = <<>>
    /\ message = ""
    /\ exitCode = -1
    /\ files = EmptyDict
    /\ env_content = <<>>

\* print(msg); sys.exit(1)
Exit1(msg) ==
    /\ pc' = "exit"
    /\ message' = msg
    /\ exitCode' = 1

\* An uncaught exception: the interpreter prints it and exits with status 1.
Raise(exc) ==
    /\ pc' = "crashed"
    /\ message' = exc
    /\ exitCode' = 1

\* main: the exists() test and parse_toml.
Load ==
    /\ pc = "start"
    /\ IF source = "missing"
       THEN Exit1("Error: TOML file not found") /\ UNCHANGED config
       ELSE IF source = "malformed"
       THEN Exit1("Error parsing TOML file") /\ UNCHANGED config
       ELSE /\ config' = toml
            /\ pc' = "v_required"
            /\ UNCHANGED <<message, exitCode>>
    /\ UNCHANGED <<source, toml, fi, ri, checked, files, env_content>>

\* validate_config: the required_fields loop.
ValidateRequired ==
    /\ pc = "v_required"
    /\ checked' = Append(checked, "green_agent")
    /\ IF "green_agent" \notin DOMAIN config
       THEN Exit1("Error: Required field 'green_agent' not found in TOML")
            /\ UNCHANGED fi
       ELSE /\ pc' = "v_green"
            /\ fi' = 1
            /\ UNCHANGED <<message, exitCode>>
    /\ UNCHANGED <<source, toml, config, ri, files, env_content>>

\* validate_config: one turn of the required_green_fields loop.
ValidateGreenField ==
    /\ pc = "v_green"
    /\ LET field == required_green_fields[fi] IN
       /\ checked' = Append(checked, "green_agent." \o field)
       /\ IF field \notin DOMAIN config.green_agent
          THEN Exit1("Error: Required field 'green_agent." \o field \o "' not found in TOML")
               /\ UNCHANGED fi
          ELSE /\ IF fi < Len(required_green_fields)
                  THEN fi' = fi + 1 /\ pc' = "v_green"
                  ELSE fi' = 1 /\ pc' = "v_roles"
               /\ UNCHANGED <<message, exitCode>>
    /\ UNCHANGED <<source, toml, config, ri, files, env_content>>

\* A variant whose length test is off by one and lets an empty list pass.
ValidateRolesLenOffByOne ==
    /\ pc = "v_roles"
    /\ checked' = Append(checked, "participants.required_roles")
    /\ IF Len(RequiredRoles(config)) < 0
       THEN Exit1("Error: At least one participant role is required")
       ELSE /\ pc' = IF RequiredRoles(config) = <<>> THEN "compose" ELSE "v_role"
            /\ UNCHANGED <<message, exitCode>>
    /\ ri' = 0
    /\ fi' = 1
    /\ UNCHANGED <<source, toml, config, files, env_content>>

\* validate_config: the length test on required_roles.
ValidateRolesLen ==
    /\ pc = "v_roles"
    /\ checked' = Append(checked, "participants.required_roles")
    /\ IF Len(RequiredRoles(config)) < 1
       THEN Exit1("Error: At least one participant role is required")
       ELSE /\ pc' = IF RequiredRoles(config) = <<>> THEN "compose" ELSE "v_role"
            /\ UNCHANGED <<message, exitCode>>
    /\ ri' = 0
    /\ fi' = 1
    /\ UNCHANGED <<source, toml, config, files, env_content>>

RoleFieldPath(i, field) ==
    "participants.required_roles[" \o ToString(i) \o "]." \o field

\* validate_config: one turn of the inner loop over required_role_fields.
ValidateRoleField ==
    /\ pc = "v_role"
    /\ LET role == RequiredRoles(config)[ri + 1]
           field == required_role_fields[fi] IN
       /\ checked' = Append(checked, RoleFieldPath(ri, field))
       /\ IF field \notin DOMAIN role
          THEN Exit1("Error: Required field '" \o RoleFieldPath(ri, field) \o "' not found in TOML")
               /\ UNCHANGED <<fi, ri>>
          ELSE /\ IF fi < Len(required_role_fields)
                  THEN fi' = fi + 1 /\ ri' = ri /\ pc' = "v_role"
                  ELSE IF ri + 1 < Len(RequiredRoles(config))
                  THEN fi' = 1 /\ ri' = ri + 1 /\ pc' = "v_role"
                  ELSE fi' = 1 /\ ri' = ri /\ pc' = "compose"
               /\ UNCHANGED <<message, exitCode>>
    /\ UNCHANGED <<source, toml, config, files, env_content>>

\* open(path, "w"); f.write(content)
Write(name, content) == files' = (name :> content) @@ files

\* main: generate and write docker-compose.yml.
DockerCompose ==
    /\ pc = "compose"
    /\ IF KeyErrorIn(config)
       THEN Raise("KeyError: 'name'") /\ UNCHANGED files
       ELSE /\ Write("docker-compose.yml", generate_docker_compose(config))
            /\ pc' = "scenario"
            /\ UNCHANGED <<message, exitCode>>
    /\ UNCHANGED <<source, toml, config, fi, ri, checked, env_content>>

\* main: generate and write runner-scenario.toml.
RunnerScenario ==
    /\ pc = "scenario"
    /\ IF KeyErrorIn(config)
       THEN Raise("KeyError: 'name'") /\ UNCHANGED files
       ELSE /\ Write("runner-scenario.toml", generate_runner_scenario(config))
            /\ pc' = "env"
            /\ UNCHANGED <<message, exitCode>>
    /\ UNCHANGED <<source, toml, config, fi, ri, checked, env_content>>

\* main: env_content = generate_env_example(config).
EnvExample ==
    /\ pc = "env"
    /\ IF KeyErrorIn(config)
       THEN Raise("KeyError: 'name'") /\ UNCHANGED env_content
       ELSE /\ env_content' = generate_env_example(config)
            /\ pc' = "write_env"
            /\ UNCHANGED <<message, exitCode>>
    /\ UNCHANGED <<source, toml, config, fi, ri, checked, files>>

\* main: write .env.example when env_content.strip() is not empty.
WriteEnvExample ==
    /\ pc = "write_env"
    /\ IF StripNonEmpty(env_content)
       THEN Write(".env.example", env_content)
       ELSE UNCHANGED files
    /\ pc' = "report"
    /\ UNCHANGED <<source, toml, config, fi, ri, checked, message, exitCode, env_content>>

\* main: the success summary; the process then ends with status 0.
Report ==
    /\ pc = "report"
    /\ pc' = "done"
    /\ exitCode' = 0
    /\ UNCHANGED <<source, toml, config, fi, ri, checked, message, files, env_content>>

Next ==
    \/ Load
    \/ ValidateRequired
    \/ ValidateGreenField
    \/ ValidateRolesLen
    \/ ValidateRoleField
    \/ DockerCompose
    \/ RunnerScenario
    \/ EnvExample
    \/ WriteEnvExample
    \/ Report

Spec == Init /\ [][Next]_vars

--------------------------------------------------------------------------
\* What the claims speak of.

ComposeFile == "docker-compose.yml"
ScenarioFile == "runner-scenario.toml"
EnvFile == ".env.example"

Written(name) == name \in DOMAIN files

\* The five required-field checks of a document, by number, that fail.  A
\* check on a field of an absent parent is not counted as failing.
FailedChecks(d) ==
    LET hasGreen == "green_agent" \in DOMAIN d
        roles == RequiredRoles(d) IN
    {k \in 1..5 :
        \/ k = 1 /\ ~hasGreen
        \/ k = 2 /\ hasGreen /\ "image" \notin DOMAIN d.green_agent
        \/ k = 3 /\ hasGreen /\ "port" \notin DOMAIN d.green_agent
        \/ k = 4 /\ roles = <<>>
        \/ k = 5 /\ \E r \in DOMAIN roles :
                      \E f \in {"name", "image", "port"} : f \notin DOMAIN roles[r]}

PassesValidation(d) == FailedChecks(d) = {}

\* No owner of the document has an "environment" key.
NoEnvironment(d) ==
    /\ "environment" \notin DOMAIN d.green_agent
    /\ \A r \in DOMAIN RequiredRoles(d) : "environment" \notin DOMAIN RequiredRoles(d)[r]

Ended == exitCode /= -1

\* C1: a run on a validated document none of whose owners declares an
\* environment ends without a .env.example file, generate_env_example
\* having returned content that strips to nothing.
C1_NoEnvFileWithoutEnvironment ==
    (pc = "done" /\ PassesValidation(toml) /\ NoEnvironment(toml))
        => (~Written(EnvFile) /\ ~StripNonEmpty(env_content))

\* C2: on a document that fails exactly one of the five checks, the run
\* never writes a file, never reaches a generator, is never stuck before it
\* ends, and ends with a non-zero exit code.
C2_FailedCheckWritesNothing ==
    (source = "ok" /\ Cardinality(FailedChecks(toml)) = 1)
        => /\ files = EmptyDict
           /\ pc \in {"start", "v_required", "v_green", "v_roles", "v_role", "exit"}
           /\ exitCode \in {-1, 1}
           /\ (pc = "exit") = (exitCode = 1)
           /\ (pc /= "exit" => ENABLED Next)

\* A run has ended on the role-level check alone, having written nothing.
C2_Witness ==
    /\ source = "ok"
    /\ FailedChecks(toml) = {5}
    /\ pc = "exit"
    /\ exitCode = 1
    /\ files = EmptyDict

\* C3: a run on a document that passes the five checks, once ended, has
\* exit code 0 and has written docker-compose.yml and runner-scenario.toml.
C3_ValidatedRunSucceeds ==
    (source = "ok" /\ PassesValidation(toml) /\ Ended)
        => (exitCode = 0 /\ Written(ComposeFile) /\ Written(ScenarioFile))

\* The field paths of the checks in the order of section 4.2: green_agent,
\* its image, its port, the role list, then name, image, port of each role
\* in index order (indices from 0).
CheckOrder(d) ==
    LET roles == RequiredRoles(d) IN
    << "green_agent", "green_agent.image", "green_agent.port",
       "participants.required_roles" >>
    \o Flatten([r \in 1..Len(roles) |->
          [f \in 1..3 |-> "participants.required_roles[" \o ToString(r - 1) \o "]."
                            \o <<"name", "image", "port">>[f]]])

\* Check number k of CheckOrder(d) fails on d (its parent being present).
CheckFails(d, k) ==
    LET roles == RequiredRoles(d) IN
    IF k = 1 THEN "green_agent" \notin DOMAIN d
    ELSE IF k = 2 THEN "image" \notin DOMAIN d.green_agent
    ELSE IF k = 3 THEN "port" \notin DOMAIN d.green_agent
    ELSE IF k = 4 THEN Len(roles) < 1
    ELSE <<"name", "image", "port">>[((k - 5) % 3) + 1]
            \notin DOMAIN roles[((k - 5) \div 3) + 1]

\* The message that names the field of check k.
CheckMessage(d, k) ==
    IF k = 4 THEN "Error: At least one participant role is required"
    ELSE "Error: Required field '" \o CheckOrder(d)[k] \o "' not found in TOML"

\* C9: the checks run in the order of CheckOrder; a run that validation
\* ends has tested exactly the checks up to the first failing one, none
\* after it, and its message names that check's field.
C9_FirstFailingCheckReported ==
    /\ (source = "ok" /\ Len(checked) > 0) =>
          /\ Len(checked) <= Len(CheckOrder(toml))
          /\ checked = SubSeq(CheckOrder(toml), 1, Len(checked))
          /\ \A j \in 1..(Len(checked) - 1) : ~CheckFails(toml, j)
    /\ (source = "ok" /\ pc = "exit") =>
          /\ CheckFails(toml, Len(checked))
          /\ message = CheckMessage(toml, Len(checked))
    /\ (source = "ok" /\ pc \notin {"start", "v_required", "v_green", "v_roles", "v_role", "exit"})
          => checked = CheckOrder(toml)

\* A run ended at the image of the second role of a document that also
\* lacks that role's port: the later check was never tested.
C9_Witness ==
    /\ source = "ok"
    /\ pc = "exit"
    /\ Len(RequiredRoles(toml)) = 2
    /\ DOMAIN RequiredRoles(toml)[2] = {"name"}
    /\ message = "Error: Required field 'participants.required_roles[1].image' not found in TOML"
    /\ Len(checked) = 9

--------------------------------------------------------------------------
\* Reading the generated files back.

\* The indices of the lines of a file that satisfy P, in file order.
IndicesWhere(lines, P(_)) ==
    SelectSeq([i \in 1..Len(lines) |-> i], LAMBDA i : P(lines[i]))

\* The first index after i whose line is l, 0 when there is none.
RECURSIVE NextLine(_, _, _)
NextLine(lines, i, l) ==
    IF i + 1 > Len(lines) THEN 0
    ELSE IF lines[i + 1] = l THEN i + 1
    ELSE NextLine(lines, i + 1, l)

\* Identifiers a service key, a role or a host may read as.
ServiceUniverse ==
    RoleNames \cup {NameAt(i) : i \in 1..4}
      \cup {GreenService, "green_agent", "agentbeats-runner", "localhost"}

PortUniverse == {GreenPort, RolePort}

UrlUniverse ==
    {"http://" \o h \o ":" \o ToString(p) : h \in ServiceUniverse, p \in PortUniverse}

\* The texts of the lines that declare an identifier as a mapping key at
\* indentation ind, and the identifiers a line declares so.
KeyTexts(ind) == {ind \o x \o ":" : x \in ServiceUniverse}
ServiceKeyTexts == KeyTexts("  ")
DependencyKeyTexts == KeyTexts("      ")
KeysIn(texts, ind, line) ==
    IF line \in texts THEN {x \in ServiceUniverse : line = ind \o x \o ":"} ELSE {}
ServiceKeys(line) == KeysIn(ServiceKeyTexts, "  ", line)
DependencyKeys(line) == KeysIn(DependencyKeyTexts, "      ", line)

\* The names of the roles of a document, in document order.
RoleNamesOf(d) == [r \in 1..Len(RequiredRoles(d)) |-> RequiredRoles(d)[r].name]

\* The runner's depends_on block: the lines between the depends_on key of
\* the agentbeats-runner service (the last service of the file) and its
\* networks key.
RunnerDependsBlock(lines) ==
    LET IsRunner(l) == l = "  agentbeats-runner:"
        heads == IndicesWhere(lines, IsRunner)
        start == heads[Len(heads)]
        dep == NextLine(lines, start, "    depends_on:")
        end == NextLine(lines, dep, "    networks:") IN
    SubSeq(lines, dep + 1, end - 1)

\* C4: the runner's depends_on block is a list of pairs, a service key and
\* the condition service_healthy; the services keyed are exactly the green
\* agent and the name of each role.
C4_RunnerDependsOnAllHealthy ==
    Written(ComposeFile) =>
        LET block == RunnerDependsBlock(files[ComposeFile])
            names == RoleNamesOf(toml) IN
        /\ Len(block) % 2 = 0
        /\ Len(block) >= 4
        /\ \A i \in 1..(Len(block) \div 2) :
              /\ DependencyKeys(block[2 * i - 1]) /= {}
              /\ block[2 * i] = "        condition: service_healthy"
        /\ UNION {DependencyKeys(block[2 * i - 1]) : i \in 1..(Len(block) \div 2)}
              = {GreenService} \cup {names[r] : r \in DOMAIN names}

\* The orchestration file of a document with two differently named roles
\* is written, and its runner depends on three services.
C4_Witness ==
    /\ Written(ComposeFile)
    /\ Len(RequiredRoles(toml)) = 2
    /\ RoleNamesOf(toml) = <<"debater", "judge">>
    /\ Len(RunnerDependsBlock(files[ComposeFile])) = 6

\* C8: the service keys of the orchestration file are pairwise distinct.
C8_ServiceIdentifiersDistinct ==
    Written(ComposeFile) =>
        LET lines == files[ComposeFile]
            IsService(l) == ServiceKeys(l) /= {}
            heads == IndicesWhere(lines, IsService) IN
        \A i, j \in DOMAIN heads : i /= j => lines[heads[i]] /= lines[heads[j]]

\* The URLs a line gives as the --card-url of an agent's startup command,
\* and as the endpoint of a scenario entry.
CommandText(p, u) ==
    "    command: [\"--host\", \"0.0.0.0\", \"--port\", \"" \o ToString(p)
      \o "\", \"--card-url\", \"" \o u \o "\"]"
CommandTexts == {CommandText(p, u) : p \in PortUniverse, u \in UrlUniverse}
CardUrls(line) ==
    IF line \in CommandTexts
    THEN {u \in UrlUniverse : \E p \in PortUniverse : line = CommandText(p, u)}
    ELSE {}

EndpointText(u) == "endpoint = \"" \o u \o "\""
EndpointTexts == {EndpointText(u) : u \in UrlUniverse}
EndpointUrls(line) ==
    IF line \in EndpointTexts THEN {u \in UrlUniverse : line = EndpointText(u)} ELSE {}

\* The role a line of the scenario document names.
RolesNamed(line) == {x \in ServiceUniverse : line = "role = \"" \o x \o "\""}

\* C10: the agents' startup commands of the orchestration file and the
\* endpoint lines of the scenario document correspond one to one, in file
\* order, green agent first: the same service, the same URL, which is
\* http://<service>:<port> of the document; and the scenario document has
\* one [[participants]] entry per role, in document order.
C10_EndpointsMatchCardUrls ==
    Written(ScenarioFile) =>
        LET compose == files[ComposeFile]
            scenario == files[ScenarioFile]
            names == RoleNamesOf(toml)
            ids == <<GreenService>> \o names
            ports == <<toml.green_agent.port>>
                       \o [r \in 1..Len(names) |-> RequiredRoles(toml)[r].port]
            IsCommand(l) == CardUrls(l) /= {}
            IsEndpoint(l) == EndpointUrls(l) /= {}
            IsEntry(l) == l = "[[participants]]"
            cmds == IndicesWhere(compose, IsCommand)
            ends == IndicesWhere(scenario, IsEndpoint)
            entries == IndicesWhere(scenario, IsEntry) IN
        /\ Len(cmds) = Len(ids)
        /\ Len(ends) = Len(ids)
        /\ \A k \in DOMAIN ids :
              /\ ids[k] \in ServiceKeys(compose[cmds[k] - 3])
              /\ CardUrls(compose[cmds[k]]) = EndpointUrls(scenario[ends[k]])
              /\ EndpointUrls(scenario[ends[k]])
                    = {"http://" \o ids[k] \o ":" \o ToString(ports[k])}
        /\ scenario[ends[1] - 1] = "[green_agent]"
        /\ Len(entries) = Len(names)
        /\ \A r \in DOMAIN names :
              /\ RolesNamed(scenario[entries[r] + 1]) = {names[r]}
              /\ ends[r + 1] = entries[r] + 2

\* Both files of a document with two differently named roles are written.
C10_Witness ==
    /\ Written(ScenarioFile)
    /\ Written(ComposeFile)
    /\ RoleNamesOf(toml) = <<"debater", "judge">>
    /\ pc = "done"

--------------------------------------------------------------------------
\* The environment entries of a document and where the files list them.

VarNames == {"API_KEY", "MODE", "DEBUG"}
DefaultUniverse == {"dev", "fast", "slow"}
Placeholder(n) == "${" \o n \o "}"

\* The entries of a document as <<owner, entry>>, green agent first, then
\* the roles in document order, each owner's entries in declaration order.
EntriesOf(d) ==
    LET roles == RequiredRoles(d)
        Of(owner, env) == [i \in 1..Len(env) |-> <<owner, env[i]>>] IN
    Of(GreenService, EnvOf(d.green_agent))
    \o Flatten([r \in 1..Len(roles) |-> Of(roles[r].name, EnvOf(roles[r]))])

WithDefault(d) == SelectSeq(EntriesOf(d), LAMBDA e : "default" \in DOMAIN e[2])
WithoutDefault(d) == SelectSeq(EntriesOf(d), LAMBDA e : "default" \notin DOMAIN e[2])

\* The lines of a section of the template: those after its heading up to
\* the next empty line; none when the heading is absent.
TemplateSection(lines, heading) ==
    LET h == NextLine(lines, 0, heading) IN
    IF h = 0 THEN <<>> ELSE SubSeq(lines, h + 1, NextLine(lines, h, "") - 1)

RequiredLines(lines) == TemplateSection(lines, "# Required variables (no defaults)")
OptionalLines(lines) ==
    TemplateSection(lines, "# Optional variables (defaults are set in docker-compose.yml)")

\* What a line of the template reads as: an empty assignment NAME=, an
\* owner annotation, an informational "# owner: NAME=default" line.
EmptyAssignments(line) == {n \in VarNames : line = n \o "="}
OwnerNotes(line) == {o \in ServiceUniverse : line = "# " \o o}
DefaultNoteText(t) == "# " \o t[1] \o ": " \o t[2] \o "=" \o t[3]
DefaultNoteTexts ==
    {DefaultNoteText(t) : t \in ServiceUniverse \X VarNames \X DefaultUniverse}
DefaultNotes(line) ==
    IF line \in DefaultNoteTexts
    THEN {t \in ServiceUniverse \X VarNames \X DefaultUniverse : line = DefaultNoteText(t)}
    ELSE {}

\* The names the required and the optional section of the template hold.
RequiredNames(lines) ==
    UNION {EmptyAssignments(RequiredLines(lines)[i]) : i \in DOMAIN RequiredLines(lines)}
OptionalNames(lines) ==
    {t[2] : t \in UNION {DefaultNotes(OptionalLines(lines)[i]) : i \in DOMAIN OptionalLines(lines)}}

\* The lines of the service block of owner in the orchestration file: from
\* its key to the empty line that ends the block.
ServiceBlock(lines, owner) ==
    LET h == NextLine(lines, 0, "  " \o owner \o ":") IN
    SubSeq(lines, h, NextLine(lines, h, "") - 1)

\* What an environment item of a service block reads as: <<NAME, value>>.
EnvItemUniverse == VarNames \X (DefaultUniverse \cup {Placeholder(n) : n \in VarNames})
EnvItemText(t) == "      - " \o t[1] \o "=" \o t[2]
EnvItemTexts == {EnvItemText(t) : t \in EnvItemUniverse}
EnvItems(line) ==
    IF line \in EnvItemTexts THEN {t \in EnvItemUniverse : line = EnvItemText(t)} ELSE {}

\* The environment items of owner's service block, in order.
ServiceEnv(lines, owner) ==
    LET block == ServiceBlock(lines, owner)
        IsItem(l) == EnvItems(l) /= {}
        at == IndicesWhere(block, IsItem) IN
    [k \in 1..Len(at) |-> CHOOSE t \in EnvItems(block[at[k]]) : TRUE]

\* The item an entry is to render as in the orchestration file.
ExpectedItem(var) ==
    IF "default" \in DOMAIN var THEN <<var.name, var.default>>
    ELSE <<var.name, Placeholder(var.name)>>

Owners(d) == {GreenService} \cup {RoleNamesOf(d)[r] : r \in DOMAIN RoleNamesOf(d)}

\* The entries of one owner, in declaration order.
EntriesOfOwner(d, owner) == SelectSeq(EntriesOf(d), LAMBDA e : e[1] = owner)

\* Every entry renders in its owner's service block as NAME=<default> or
\* NAME=${NAME}, by whether it has a default.
RendersInCompose(d) ==
    \A o \in Owners(d) :
        ServiceEnv(files[ComposeFile], o)
            = [k \in 1..Len(EntriesOfOwner(d, o)) |-> ExpectedItem(EntriesOfOwner(d, o)[k][2])]

\* C5, as stated: the name of an entry with a default is in the optional
\* section only, the name of an entry without one is in the required
\* section only (as NAME=), and each renders accordingly in the
\* orchestration file.
C5_NamesInOneSectionOnly ==
    Written(EnvFile) =>
        /\ RendersInCompose(toml)
        /\ \A k \in DOMAIN EntriesOf(toml) :
              LET var == EntriesOf(toml)[k][2] IN
              IF "default" \in DOMAIN var
              THEN /\ var.name \in OptionalNames(files[EnvFile])
                   /\ var.name \notin RequiredNames(files[EnvFile])
              ELSE /\ var.name \in RequiredNames(files[EnvFile])
                   /\ var.name \notin OptionalNames(files[EnvFile])

\* C5, amended: the required section lists exactly the entries without a
\* default, one owner annotation and one NAME= per entry in traversal
\* order; the optional section lists exactly the entries with a default,
\* one "# owner: NAME=default" line per entry in traversal order; and each
\* entry renders accordingly in its owner's service block.  Hence a name is
\* in one section only unless it is declared both with and without default.
C5_EntriesPartitioned ==
    Written(EnvFile) =>
        LET req == RequiredLines(files[EnvFile])
            opt == OptionalLines(files[EnvFile])
            without == WithoutDefault(toml)
            with == WithDefault(toml) IN
        /\ RendersInCompose(toml)
        /\ Len(req) = 2 * Len(without)
        /\ \A k \in DOMAIN without :
              /\ OwnerNotes(req[2 * k - 1]) = {without[k][1]}
              /\ EmptyAssignments(req[2 * k]) = {without[k][2].name}
        /\ Len(opt) = Len(with)
        /\ \A k \in DOMAIN with :
              DefaultNotes(opt[k]) = {<<with[k][1], with[k][2].name, with[k][2].default>>}
        /\ \A n \in VarNames :
              (n \in RequiredNames(files[EnvFile]) /\ n \in OptionalNames(files[EnvFile]))
                 => /\ \E k \in DOMAIN with : with[k][2].name = n
                    /\ \E k \in DOMAIN without : without[k][2].name = n

\* A template is written for a document in which the green agent declares
\* API_KEY without a default and a role declares it with one.
C5_Witness ==
    /\ Written(EnvFile)
    /\ pc = "done"
    /\ \E i \in DOMAIN WithoutDefault(toml) : \E j \in DOMAIN WithDefault(toml) :
          /\ WithoutDefault(toml)[i][1] = GreenService
          /\ WithDefault(toml)[j][1] = "debater"
          /\ WithoutDefault(toml)[i][2].name = WithDefault(toml)[j][2].name

--------------------------------------------------------------------------
\* Reading values of the scenario document back as TOML.

\* The TOML texts that denote a value (items of an array separated by ", "
\* and a mapping written as an inline table): a basic or a literal string,
\* true/false, a decimal integer.
RECURSIVE TomlLiterals(_), TomlItems(_), TomlPairs(_, _)
TomlLiterals(value) ==
    IF "str" \in DOMAIN value
        THEN {"\"" \o value.str \o "\"", "'" \o value.str \o "'"}
    ELSE IF "bool" \in DOMAIN value THEN {IF value.bool THEN "true" ELSE "false"}
    ELSE IF "int" \in DOMAIN value THEN {ToString(value.int)}
    ELSE IF "list" \in DOMAIN value THEN {"[" \o t \o "]" : t \in TomlItems(value.list)}
    ELSE {"{" \o t \o "}" : t \in TomlPairs(value.dict, KeysOf(DOMAIN value.dict))}

TomlItems(items) ==
    IF items = <<>> THEN {""}
    ELSE IF Len(items) = 1 THEN TomlLiterals(items[1])
    ELSE {a \o ", " \o b : a \in TomlLiterals(items[1]), b \in TomlItems(Tail(items))}

TomlPairs(d, ks) ==
    IF ks = <<>> THEN {""}
    ELSE IF Len(ks) = 1 THEN {ks[1] \o " = " \o a : a \in TomlLiterals(d[ks[1]])}
    ELSE {ks[1] \o " = " \o a \o ", " \o b :
            a \in TomlLiterals(d[ks[1]]), b \in TomlPairs(d, Tail(ks))}

\* The lines of the table that starts at line h: up to the next empty line.
TableAt(lines, h) == SubSeq(lines, h + 1, NextLine(lines, h, "") - 1)

\* A table holds key with this value.
Carries(table, key, value) ==
    \E i \in DOMAIN table : \E t \in TomlLiterals(value) : table[i] = key \o " = " \o t

\* A table assigns key at all.
Assigns(table, key) ==
    \E i \in DOMAIN table : \E v \in ExtraValues \cup {[int |-> p] : p \in PortUniverse}
                                       \cup {[str |-> GreenImage], [str |-> RoleImage]}
                                       \cup {[str |-> n] : n \in ServiceUniverse} :
        \E t \in TomlLiterals(v) \cup {PyRepr(v)} : table[i] = key \o " = " \o t

IsScalarOrSequence(value) == DOMAIN value \subseteq {"str", "bool", "int", "list"}

\* C6: every top-level entry other than green_agent and participants has
\* its section in the scenario document, holding each key of the entry
\* whose value is a string, a boolean, a number or a sequence, with that
\* value.
C6_SectionsPassThrough ==
    Written(ScenarioFile) =>
        LET lines == files[ScenarioFile] IN
        \A name \in DOMAIN toml \ {"green_agent", "participants"} :
            LET h == NextLine(lines, 0, "[" \o name \o "]") IN
            /\ h /= 0
            /\ "dict" \in DOMAIN toml[name] =>
                  \A key \in DOMAIN toml[name].dict :
                      IsScalarOrSequence(toml[name].dict[key])
                          => Carries(TableAt(lines, h), key, toml[name].dict[key])

\* C7: every field of green_agent outside {image, port, environment} and of
\* a role outside {name, image, port, environment} is held, with its
\* value, by [green_agent] or by the role's [[participants]] entry, and
\* none of the excluded keys is assigned there.
C7_ExtraFieldsCarried ==
    Written(ScenarioFile) =>
        LET lines == files[ScenarioFile]
            roles == RequiredRoles(toml)
            IsEntry(l) == l = "[[participants]]"
            entries == IndicesWhere(lines, IsEntry)
            green == TableAt(lines, NextLine(lines, 0, "[green_agent]")) IN
        /\ \A key \in DOMAIN toml.green_agent \ {"image", "port", "environment"} :
              Carries(green, key, toml.green_agent[key])
        /\ \A key \in {"image", "port", "environment"} : ~Assigns(green, key)
        /\ Len(entries) = Len(roles)
        /\ \A r \in DOMAIN roles :
              /\ \A key \in DOMAIN roles[r] \ {"name", "image", "port", "environment"} :
                    Carries(TableAt(lines, entries[r]), key, roles[r][key])
              /\ \A key \in {"name", "image", "port", "environment"} :
                    ~Assigns(TableAt(lines, entries[r]), key)

====
